---------------------------- MODULE Spec2Model ----------------------------
(***************************************************************************)
(* Model of main() of main.py: the chat-export pipeline from the raw lines *)
(* to the table that carries response_time (lines 45-69).                  *)
(*                                                                         *)
(* Text is modelled as sequences of character codes, so the regular        *)
(* expression, the timestamp parse and the lexicographic comparison of     *)
(* strings are computed on characters as the code computes them.           *)
(* An optional value (None / NaN / NaT) is a sequence of length 0 or 1:    *)
(* None == <<>> and Some(x) == <<x>>.                                      *)
(***************************************************************************)
EXTENDS Integers, Sequences, FiniteSets, TLC

VARIABLES lines, pc, err, data, df, df_response_times

vars == <<lines, pc, err, data, df, df_response_times>>

(***************************************************************************)
(* Bound of the model: the number of lines of the input file.              *)
(***************************************************************************)
MaxLines == 4

None == <<>>
Some(x) == <<x>>
IsNone(o) == Len(o) = 0
IsSome(o) == Len(o) = 1
Get(o) == o[1]

(***************************************************************************)
(* Character codes.                                                        *)
(***************************************************************************)
NL == 10
SP == 32
COMMA == 44
DOT == 46
COLON == 58
LBRACKET == 91
RBRACKET == 93
ZERO == 48

(* The digits "0".."9"; the lines of the model hold no other digit. *)
IsDigit(c) == c \in ZERO..(ZERO + 9)

(* The two characters of a two-digit number. *)
D2(n) == <<ZERO + (n \div 10), ZERO + (n % 10)>>

(***************************************************************************)
(* The lines of the input file (f.readlines(): each line keeps its "\n").  *)
(***************************************************************************)
Alice == <<65, 108, 105, 99, 101>>
Bob == <<66, 111, 98>>
Hi == <<72, 105>>
There == <<116, 104, 101, 114, 101>>

(* "DD<sep>MM<sep>YY, HH:MM:SS" *)
StampText(d, m, y, sep, H, M, S) ==
    D2(d) \o <<sep>> \o D2(m) \o <<sep>> \o D2(y) \o <<COMMA, SP>>
        \o D2(H) \o <<COLON>> \o D2(M) \o <<COLON>> \o D2(S)

(* "[stamp] name: body\n" *)
MessageLine(stamp, name, body) ==
    <<LBRACKET>> \o stamp \o <<RBRACKET, SP>> \o name \o <<COLON, SP>> \o body \o <<NL>>

T10 == StampText(1, 1, 23, DOT, 10, 0, 0)
T16 == StampText(1, 1, 23, DOT, 16, 0, 0)
T17 == StampText(1, 1, 23, DOT, 17, 0, 0)
TFeb31 == StampText(31, 2, 23, DOT, 10, 0, 0)
(* "01-01-23, 10:00:00": 45 is the code of "-" *)
TDashed == StampText(1, 1, 23, 45, 10, 0, 0)

ChatLines ==
    { MessageLine(T10, Alice, Hi),
      MessageLine(T16, Bob, Hi),
      MessageLine(T17, Alice, Hi),
      MessageLine(T17, Bob, Hi),
      MessageLine(T17, Bob, <<>>),          \* a prefix and an empty body
      MessageLine(TFeb31, Alice, Hi),       \* the pattern matches; no calendar date
      MessageLine(TDashed, Bob, Hi),        \* the pattern matches; not the format
      Hi \o <<NL>>,                         \* a continuation line
      There \o <<NL>>,
      <<NL>>,                               \* an empty line
      <<LBRACKET>> \o T10 \o <<RBRACKET, SP>> \o Alice \o <<COLON>> \o Hi \o <<NL>> }
                                            \* "Alice:Hi": no space after the colon

RECURSIVE SeqsUpTo(_, _)
SeqsUpTo(S, n) ==
    IF n = 0 THEN { <<>> }
    ELSE LET shorter == SeqsUpTo(S, n - 1)
         IN  shorter \cup { Append(s, x) : s \in { t \in shorter : Len(t) = n - 1 }, x \in S }

(***************************************************************************)
(* line 49: the pattern.  An optional prefix group, made of a bracketed    *)
(* stamp (group "datetime": two digits, any character, two digits, any     *)
(* character, two digits, a comma, a space, two digits, a colon, two       *)
(* digits, a colon, two digits), a closing bracket, a space, any number of *)
(* characters other than a colon (group "messenger"), a colon and a space; *)
(* then any number of characters other than a newline (group "message").   *)
(***************************************************************************)

(* "." matches any character except a newline. *)
MatchesDot(c) == c # NL

(* Position of the first c in s at or after position i, or Len(s) + 1 when
   there is none. *)
RECURSIVE FirstAt(_, _, _)
FirstAt(s, i, c) ==
    IF i > Len(s) THEN Len(s) + 1
    ELSE IF s[i] = c THEN i
    ELSE FirstAt(s, i + 1, c)

(* The bracketed stamp and the space after it at the start of the line:
   21 characters, the bracketed text at positions 2..19. *)
MatchesStamp(line) ==
    /\ Len(line) >= 21
    /\ line[1] = LBRACKET
    /\ IsDigit(line[2]) /\ IsDigit(line[3])
    /\ MatchesDot(line[4])
    /\ IsDigit(line[5]) /\ IsDigit(line[6])
    /\ MatchesDot(line[7])
    /\ IsDigit(line[8]) /\ IsDigit(line[9])
    /\ line[10] = COMMA /\ line[11] = SP
    /\ IsDigit(line[12]) /\ IsDigit(line[13])
    /\ line[14] = COLON
    /\ IsDigit(line[15]) /\ IsDigit(line[16])
    /\ line[17] = COLON
    /\ IsDigit(line[18]) /\ IsDigit(line[19])
    /\ line[20] = RBRACKET /\ line[21] = SP

(* The messenger holds no colon, so the colon that ends it is the first one
   after the stamp. *)
MessengerEnd(line) == FirstAt(line, 22, COLON)

MatchesPrefix(line) ==
    /\ MatchesStamp(line)
    /\ MessengerEnd(line) + 1 <= Len(line)
    /\ line[MessengerEnd(line) + 1] = SP

(* The message from position i: up to, not including, the next newline. *)
DotStar(line, i) == SubSeq(line, i, FirstAt(line, i, NL) - 1)

(* re.search(pattern, line).groupdict(): the search matches at position 0,
   with the optional group when it can match and without it otherwise. *)
Groupdict(line) ==
    IF MatchesPrefix(line)
    THEN [ datetime  |-> Some(SubSeq(line, 2, 19)),
           messenger |-> Some(SubSeq(line, 22, MessengerEnd(line) - 1)),
           message   |-> DotStar(line, MessengerEnd(line) + 2) ]
    ELSE [ datetime  |-> None,
           messenger |-> None,
           message   |-> DotStar(line, 1) ]

(***************************************************************************)
(* lines 53-54: the table of the groupdicts, without the empty messages.   *)
(* index is the row's label in the pandas index: the 0-based number of     *)
(* its input line, kept by every filter.                                   *)
(***************************************************************************)
DataFrame(d) ==
    [ i \in 1..Len(d) |->
        [ index     |-> i - 1,
          datetime  |-> d[i].datetime,
          messenger |-> d[i].messenger,
          message   |-> d[i].message ] ]

HasMessage(row) == row.message # <<>>

(* Mutant of RemoveEmptyMessages: the filter of line 54 left out. *)
KeepEmptyMessages(frame) == frame

RemoveEmptyMessages(frame) == SelectSeq(frame, HasMessage)

(***************************************************************************)
(* lines 57-59: pd.to_datetime with format "%d.%m.%y, %H:%M:%S", and the   *)
(* date and the time of day of the result.  A datetime is the number of    *)
(* seconds since 1970-01-01 00:00:00; None stays missing (NaT).            *)
(***************************************************************************)
Num2(s, i) == (s[i] - ZERO) * 10 + (s[i + 1] - ZERO)

(* %y: 00..68 are 2000..2068, 69..99 are 1969..1999. *)
Century(yy) == IF yy <= 68 THEN 2000 + yy ELSE 1900 + yy

IsLeap(y) == (y % 4 = 0 /\ y % 100 # 0) \/ y % 400 = 0

DaysInMonth(y, m) ==
    IF m = 2 THEN (IF IsLeap(y) THEN 29 ELSE 28)
    ELSE IF m \in {4, 6, 9, 11} THEN 30
    ELSE 31

(* The text has the literal characters of the format between its numbers. *)
MatchesFormat(s) ==
    /\ Len(s) = 18
    /\ \A i \in {1, 2, 4, 5, 7, 8, 11, 12, 14, 15, 17, 18} : IsDigit(s[i])
    /\ s[3] = DOT /\ s[6] = DOT
    /\ s[9] = COMMA /\ s[10] = SP
    /\ s[13] = COLON /\ s[16] = COLON

(* The numbers form a calendar date and a time of day.  (The lines of the
   model hold no seconds above 59.) *)
ValidStamp(s) ==
    /\ MatchesFormat(s)
    /\ Num2(s, 4) \in 1..12
    /\ Num2(s, 1) \in 1..DaysInMonth(Century(Num2(s, 7)), Num2(s, 4))
    /\ Num2(s, 11) <= 23
    /\ Num2(s, 14) <= 59
    /\ Num2(s, 17) <= 59

(* Days from 1970-01-01 to the civil date y-m-d. *)
DaysFromCivil(y, m, d) ==
    LET yy  == IF m <= 2 THEN y - 1 ELSE y
        era == yy \div 400
        yoe == yy - era * 400
        mp  == IF m > 2 THEN m - 3 ELSE m + 9
        doy == (153 * mp + 2) \div 5 + d - 1
        doe == yoe * 365 + yoe \div 4 - yoe \div 100 + doy
    IN  era * 146097 + doe - 719468

SecondsPerHour == 3600
SecondsPerDay == 86400

StampSeconds(s) ==
    DaysFromCivil(Century(Num2(s, 7)), Num2(s, 4), Num2(s, 1)) * SecondsPerDay
        + Num2(s, 11) * SecondsPerHour + Num2(s, 14) * 60 + Num2(s, 17)

StampDate(s) == <<Century(Num2(s, 7)), Num2(s, 4), Num2(s, 1)>>

StampTime(s) == <<Num2(s, 11), Num2(s, 14), Num2(s, 17)>>

(* to_datetime raises on the first text that is no date of the format. *)
Unparseable(frame) ==
    \E i \in 1..Len(frame) :
        IsSome(frame[i].datetime) /\ ~ValidStamp(Get(frame[i].datetime))

ToDatetimeRow(row) ==
    [ index     |-> row.index,
      datetime  |-> IF IsSome(row.datetime)
                    THEN Some(StampSeconds(Get(row.datetime))) ELSE None,
      messenger |-> row.messenger,
      message   |-> row.message,
      date      |-> IF IsSome(row.datetime)
                    THEN Some(StampDate(Get(row.datetime))) ELSE None,
      time      |-> IF IsSome(row.datetime)
                    THEN Some(StampTime(Get(row.datetime))) ELSE None ]

(* Mutant of ToDatetime: the table sorted by datetime once it is parsed (as
   sort_values("datetime") would: stable, missing values last). *)
RECURSIVE SortedByDatetime(_)
SortedByDatetime(frame) ==
    IF Len(frame) = 0 THEN <<>>
    ELSE LET Before(i, j) ==
                 \/ IsSome(frame[i].datetime) /\ IsNone(frame[j].datetime)
                 \/ /\ IsSome(frame[i].datetime) /\ IsSome(frame[j].datetime)
                    /\ Get(frame[i].datetime) < Get(frame[j].datetime)
                 \/ frame[i].datetime = frame[j].datetime /\ i < j
             first == CHOOSE i \in 1..Len(frame) :
                          \A j \in 1..Len(frame) \ {i} : Before(i, j)
         IN  <<frame[first]>>
                 \o SortedByDatetime(SubSeq(frame, 1, first - 1)
                                         \o SubSeq(frame, first + 1, Len(frame)))

ToDatetimeSorted(frame) ==
    SortedByDatetime([ i \in 1..Len(frame) |-> ToDatetimeRow(frame[i]) ])

ToDatetime(frame) == [ i \in 1..Len(frame) |-> ToDatetimeRow(frame[i]) ]

(***************************************************************************)
(* line 62: fillna(method="ffill").  Every column is filled on its own: a  *)
(* missing cell takes the cell above it, once that one is filled.          *)
(***************************************************************************)
FillFrom(above, row) ==
    [ index     |-> row.index,
      datetime  |-> IF IsNone(row.datetime) THEN above.datetime ELSE row.datetime,
      messenger |-> IF IsNone(row.messenger) THEN above.messenger ELSE row.messenger,
      message   |-> row.message,
      date      |-> IF IsNone(row.date) THEN above.date ELSE row.date,
      time      |-> IF IsNone(row.time) THEN above.time ELSE row.time ]

(* Mutant of Ffill: the result of fillna never assigned, the table unfilled. *)
FfillDiscarded(frame) == frame

RECURSIVE Ffill(_)
Ffill(frame) ==
    IF Len(frame) <= 1 THEN frame
    ELSE LET filled == Ffill(SubSeq(frame, 1, Len(frame) - 1))
         IN  Append(filled, FillFrom(filled[Len(filled)], frame[Len(frame)]))

(***************************************************************************)
(* line 65: the rows whose messenger differs from the messenger of the row *)
(* above.  shift(1) puts a missing value above the first row, and "!=" is  *)
(* true whenever one of its sides is missing.                              *)
(***************************************************************************)
NotEqual(a, b) == IsNone(a) \/ IsNone(b) \/ a # b

MessengerChanged(frame, i) ==
    NotEqual(frame[i].messenger, IF i = 1 THEN None ELSE frame[i - 1].messenger)

(* The rows from position i on whose messenger changed. *)
RECURSIVE ChangesFrom(_, _)
ChangesFrom(frame, i) ==
    IF i > Len(frame) THEN <<>>
    ELSE (IF MessengerChanged(frame, i) THEN <<frame[i]>> ELSE <<>>)
            \o ChangesFrom(frame, i + 1)

SenderChanges(frame) == ChangesFrom(frame, 1)

(***************************************************************************)
(* line 66: diff() of the datetime column of the selected rows: missing on *)
(* the first row and wherever one of the two datetimes is missing.         *)
(***************************************************************************)
Diff(frame, i) ==
    IF i = 1 \/ IsNone(frame[i].datetime) \/ IsNone(frame[i - 1].datetime)
    THEN None
    ELSE Some(Get(frame[i].datetime) - Get(frame[i - 1].datetime))

WithResponseTime(frame) ==
    [ i \in 1..Len(frame) |->
        [ index         |-> frame[i].index,
          datetime      |-> frame[i].datetime,
          messenger     |-> frame[i].messenger,
          message       |-> frame[i].message,
          date          |-> frame[i].date,
          time          |-> frame[i].time,
          response_time |-> Diff(frame, i) ] ]

(***************************************************************************)
(* lines 39, 67-68: the rows whose response_time is at most                *)
(* pd.Timedelta(response_timelimit, unit="h"); a comparison with a missing *)
(* value is false.                                                         *)
(***************************************************************************)
response_timelimit == 6

WithinLimit(row) ==
    /\ IsSome(row.response_time)
    /\ Get(row.response_time) <= response_timelimit * SecondsPerHour

Limited(frame) == SelectSeq(frame, WithinLimit)

(***************************************************************************)
(* line 69: pd.merge(df, df_response_times, how="outer").  The join is on  *)
(* the columns the two tables share: datetime, messenger, message, date    *)
(* and time.  For every key, each row of the left table with that key is   *)
(* paired with each row of the right table with that key; a left row       *)
(* without a partner gets a missing response_time.  Missing values in a    *)
(* key match each other.  The result has a fresh index; left_index and     *)
(* right_index record the labels of the two rows a result row was joined   *)
(* from (bookkeeping of the model, not columns of the table).              *)
(*                                                                         *)
(* The order of the keys depends on the installed pandas: sorted           *)
(* lexicographically, missing values last (documented; pandas >= 2.2), or  *)
(* in order of first appearance (earlier versions, for a join on several   *)
(* columns).  Merge takes which of the two as a parameter.                 *)
(***************************************************************************)
Key(row) == <<row.datetime, row.messenger, row.message, row.date, row.time>>

(* Lexicographic order of two sequences of numbers. *)
RECURSIVE SeqLess(_, _)
SeqLess(a, b) ==
    IF Len(b) = 0 THEN FALSE
    ELSE IF Len(a) = 0 THEN TRUE
    ELSE IF a[1] # b[1] THEN a[1] < b[1]
    ELSE SeqLess(Tail(a), Tail(b))

(* Order of two optional values: a missing value is last. *)
OptIntLess(a, b) == IsSome(a) /\ (IsNone(b) \/ Get(a) < Get(b))

OptSeqLess(a, b) == IsSome(a) /\ (IsNone(b) \/ SeqLess(Get(a), Get(b)))

KeyLess(k, l) ==
    IF k[1] # l[1] THEN OptIntLess(k[1], l[1])
    ELSE IF k[2] # l[2] THEN OptSeqLess(k[2], l[2])
    ELSE IF k[3] # l[3] THEN SeqLess(k[3], l[3])
    ELSE IF k[4] # l[4] THEN OptSeqLess(k[4], l[4])
    ELSE IF k[5] # l[5] THEN OptSeqLess(k[5], l[5])
    ELSE FALSE

RECURSIVE SortedKeys(_)
SortedKeys(S) ==
    IF S = {} THEN <<>>
    ELSE LET least == CHOOSE k \in S : \A l \in S \ {k} : KeyLess(k, l)
         IN  <<least>> \o SortedKeys(S \ {least})

RECURSIVE Unique(_, _)
Unique(ks, seen) ==
    IF Len(ks) = 0 THEN <<>>
    ELSE IF ks[1] \in seen THEN Unique(Tail(ks), seen)
    ELSE <<ks[1]>> \o Unique(Tail(ks), seen \cup {ks[1]})

KeysOf(frame) == [ i \in 1..Len(frame) |-> Key(frame[i]) ]

JoinKeys(left, right, lexicographic) ==
    IF lexicographic
    THEN SortedKeys({ Key(left[i]) : i \in 1..Len(left) }
                        \cup { Key(right[j]) : j \in 1..Len(right) })
    ELSE Unique(KeysOf(left) \o KeysOf(right), {})

JoinedRow(l, r) ==
    [ datetime      |-> l.datetime,
      messenger     |-> l.messenger,
      message       |-> l.message,
      date          |-> l.date,
      time          |-> l.time,
      response_time |-> r.response_time,
      left_index    |-> Some(l.index),
      right_index   |-> Some(r.index) ]

LeftOnlyRow(l) ==
    [ datetime      |-> l.datetime,
      messenger     |-> l.messenger,
      message       |-> l.message,
      date          |-> l.date,
      time          |-> l.time,
      response_time |-> None,
      left_index    |-> Some(l.index),
      right_index   |-> None ]

RightOnlyRow(r) ==
    [ datetime      |-> r.datetime,
      messenger     |-> r.messenger,
      message       |-> r.message,
      date          |-> r.date,
      time          |-> r.time,
      response_time |-> r.response_time,
      left_index    |-> None,
      right_index   |-> Some(r.index) ]

RECURSIVE Concat(_)
Concat(ss) == IF Len(ss) = 0 THEN <<>> ELSE ss[1] \o Concat(Tail(ss))

(* The rows of the result with key k. *)
JoinKey(left, right, k) ==
    LET HasKey(row) == Key(row) = k
        ls == SelectSeq(left, HasKey)
        rs == SelectSeq(right, HasKey)
    IN  IF Len(rs) = 0 THEN [ i \in 1..Len(ls) |-> LeftOnlyRow(ls[i]) ]
        ELSE IF Len(ls) = 0 THEN [ j \in 1..Len(rs) |-> RightOnlyRow(rs[j]) ]
        ELSE Concat([ i \in 1..Len(ls) |->
                        [ j \in 1..Len(rs) |-> JoinedRow(ls[i], rs[j]) ] ])

Merge(left, right, lexicographic) ==
    LET ks == JoinKeys(left, right, lexicographic)
    IN  Concat([ n \in 1..Len(ks) |-> JoinKey(left, right, ks[n]) ])

TypeOK ==
    /\ Len(lines) <= MaxLines
    /\ \A i \in 1..Len(lines) : lines[i] \in ChatLines
    /\ pc \in {"search", "frame", "to_datetime", "ffill", "changes", "diff",
               "limit", "merge", "done", "aborted"}
    /\ err \in {"none", "KeyError", "ValueError"}

Init ==
    /\ lines \in SeqsUpTo(ChatLines, MaxLines)
    /\ pc = "search"
    /\ err = "none"
    /\ data = <<>>
    /\ df = <<>>
    /\ df_response_times = <<>>

(* line 50 *)
Search ==
    /\ pc = "search"
    /\ data' = [ i \in 1..Len(lines) |-> Groupdict(lines[i]) ]
    /\ pc' = "frame"
    /\ UNCHANGED <<lines, err, df, df_response_times>>

(* lines 53-54 *)
CreateDataFrame ==
    /\ pc = "frame"
    /\ Len(data) > 0
    /\ df' = RemoveEmptyMessages(DataFrame(data))
    /\ pc' = "to_datetime"
    /\ UNCHANGED <<lines, err, data, df_response_times>>

(* lines 53-54 on an empty file: the table has no column "message". *)
CreateDataFrameKeyError ==
    /\ pc = "frame"
    /\ Len(data) = 0
    /\ pc' = "aborted"
    /\ err' = "KeyError"
    /\ UNCHANGED <<lines, data, df, df_response_times>>

(* lines 57-59 *)
TransformDatetime ==
    /\ pc = "to_datetime"
    /\ ~Unparseable(df)
    /\ df' = ToDatetime(df)
    /\ pc' = "ffill"
    /\ UNCHANGED <<lines, err, data, df_response_times>>

(* line 57 raising *)
TransformDatetimeValueError ==
    /\ pc = "to_datetime"
    /\ Unparseable(df)
    /\ pc' = "aborted"
    /\ err' = "ValueError"
    /\ UNCHANGED <<lines, data, df, df_response_times>>

(* line 62 *)
FillMultiline ==
    /\ pc = "ffill"
    /\ df' = Ffill(df)
    /\ pc' = "changes"
    /\ UNCHANGED <<lines, err, data, df_response_times>>

(* line 65 *)
SelectSenderChanges ==
    /\ pc = "changes"
    /\ df_response_times' = SenderChanges(df)
    /\ pc' = "diff"
    /\ UNCHANGED <<lines, err, data, df>>

(* line 66 *)
ComputeResponseTimes ==
    /\ pc = "diff"
    /\ df_response_times' = WithResponseTime(df_response_times)
    /\ pc' = "limit"
    /\ UNCHANGED <<lines, err, data, df>>

(* lines 67-68 *)
LimitResponseTimes ==
    /\ pc = "limit"
    /\ df_response_times' = Limited(df_response_times)
    /\ pc' = "merge"
    /\ UNCHANGED <<lines, err, data, df>>

(* line 69 *)
MergeResponseTimes ==
    /\ pc = "merge"
    /\ \E lexicographic \in BOOLEAN :
          df' = Merge(df, df_response_times, lexicographic)
    /\ pc' = "done"
    /\ UNCHANGED <<lines, err, data, df_response_times>>

Next ==
    \/ Search
    \/ CreateDataFrame
    \/ CreateDataFrameKeyError
    \/ TransformDatetime
    \/ TransformDatetimeValueError
    \/ FillMultiline
    \/ SelectSenderChanges
    \/ ComputeResponseTimes
    \/ LimitResponseTimes
    \/ MergeResponseTimes

Spec == Init /\ [][Next]_vars

(***************************************************************************)
(* The claims.                                                             *)
(***************************************************************************)

(* df holds the reconstructed records: after line 62, before line 69. *)
Reconstructed == pc \in {"changes", "diff", "limit", "merge"}

Done == pc = "done"

(* The reconstructed records of the parsed lines d (lines 53-62). *)
Reconstruct(d) == Ffill(ToDatetime(RemoveEmptyMessages(DataFrame(d))))

(* The sender-change subsequence of the parsed lines d with the gap of each
   of its records (lines 65-66). *)
Gaps(d) == WithResponseTime(SenderChanges(Reconstruct(d)))

Prefixed(d, i) == IsSome(d[i].datetime)

Max(S) == CHOOSE x \in S : \A y \in S : y <= x

Attributed(row, d, j) ==
    /\ row.messenger = d[j].messenger
    /\ row.datetime = Some(StampSeconds(Get(d[j].datetime)))

(* C1, as stated: every record of a line without a prefix has the sender and
   the timestamp of the nearest preceding input line that had a prefix. *)
C1_CarryForwardFromNearestPrefixedLine ==
    Reconstructed =>
        \A p \in 1..Len(df) :
            LET i == df[p].index + 1
                before == { j \in 1..(i - 1) : Prefixed(data, j) }
            IN  (~Prefixed(data, i) /\ before # {})
                    => Attributed(df[p], data, Max(before))

(* C1, amended: every record of a line without a prefix has the sender and
   the timestamp of the nearest preceding input line that had a prefix and a
   non-empty body; when there is no such line, its sender and timestamp are
   missing. *)
C1_CarryForward ==
    Reconstructed =>
        \A p \in 1..Len(df) :
            LET i == df[p].index + 1
                before == { j \in 1..(i - 1) :
                              Prefixed(data, j) /\ data[j].message # <<>> }
            IN  ~Prefixed(data, i)
                    => IF before = {}
                       THEN IsNone(df[p].messenger) /\ IsNone(df[p].datetime)
                       ELSE Attributed(df[p], data, Max(before))

(* A record of a continuation line that follows a prefixed line with an empty
   body, itself after a prefixed line with a body of another sender. *)
C1_Witness ==
    /\ pc = "changes"
    /\ \E p \in 1..Len(df) :
         LET i == df[p].index + 1
         IN  /\ ~Prefixed(data, i)
             /\ \E j \in 1..(i - 1), k \in 1..(i - 1) :
                  /\ k < j
                  /\ Prefixed(data, j) /\ data[j].message = <<>>
                  /\ Prefixed(data, k) /\ data[k].message # <<>>
                  /\ data[k].messenger # data[j].messenger
                  /\ \A m \in (j + 1)..(i - 1) : ~Prefixed(data, m)
                  /\ df[p].messenger = data[k].messenger

(* The carried state of section 4.2 after the first n parsed lines: a line
   with an empty body leaves it alone, a prefixed line sets it. *)
RECURSIVE Carried(_, _)
Carried(d, n) ==
    IF n = 0 THEN [ timestamp |-> None, sender |-> None ]
    ELSE IF d[n].message = <<>> THEN Carried(d, n - 1)
    ELSE IF Prefixed(d, n)
         THEN [ timestamp |-> Some(StampSeconds(Get(d[n].datetime))),
                sender    |-> d[n].messenger ]
    ELSE Carried(d, n - 1)

(* The records the sequential pass of section 4.2 emits. *)
RECURSIVE Emitted(_, _)
Emitted(d, n) ==
    IF n = 0 THEN <<>>
    ELSE Emitted(d, n - 1)
            \o (IF d[n].message = <<>> THEN <<>>
                ELSE << [ timestamp |-> Carried(d, n).timestamp,
                          sender    |-> Carried(d, n).sender,
                          body      |-> d[n].message ] >>)

Records(frame) ==
    [ p \in 1..Len(frame) |->
        [ timestamp |-> frame[p].datetime,
          sender    |-> frame[p].messenger,
          body      |-> frame[p].message ] ]

(* C2: a line with an empty body, prefixed or not, yields no record and
   leaves the carried sender and timestamp alone: the reconstructed records
   are those of the sequential pass that skips such lines, and every record,
   reconstructed or of the final table, has a non-empty body. *)
C2_EmptyBodyLinesDropped ==
    /\ Reconstructed =>
         /\ Records(df) = Emitted(data, Len(data))
         /\ \A p \in 1..Len(df) : data[df[p].index + 1].message # <<>>
    /\ (Reconstructed \/ Done) => \A p \in 1..Len(df) : df[p].message # <<>>

(* The final table of an input with a prefixed line, then an empty-body line
   with a prefix of another sender, then a continuation line. *)
C2_Witness ==
    /\ Done
    /\ \E k, j, i \in 1..Len(data) :
         /\ k < j /\ j < i
         /\ Prefixed(data, k) /\ data[k].message # <<>>
         /\ Prefixed(data, j) /\ data[j].message = <<>>
         /\ data[j].messenger # data[k].messenger
         /\ ~Prefixed(data, i) /\ data[i].message # <<>>
         /\ \E q \in 1..Len(df) :
              df[q].left_index = Some(i - 1) /\ df[q].messenger = data[k].messenger

(* The position in the reconstructed sequence of the record a row of the
   final table was joined from. *)
PositionOf(frame, label) == CHOOSE p \in 1..Len(frame) : frame[p].index = label

SameSenderAsPrevious(frame, p) ==
    /\ p > 1
    /\ IsSome(frame[p].messenger)
    /\ frame[p].messenger = frame[p - 1].messenger

(* C3: in the final table every record whose sender equals the sender of the
   record before it in the reconstructed sequence has no response_time. *)
C3_NoResponseTimeWithoutSenderChange ==
    Done =>
        \A q \in 1..Len(df) :
            LET recs == Reconstruct(data)
            IN  SameSenderAsPrevious(recs, PositionOf(recs, Get(df[q].left_index)))
                    => IsNone(df[q].response_time)

Limit == response_timelimit * SecondsPerHour

(* C4: in the final table a record whose gap between sender-switch points
   exceeds 6 hours has no response_time. *)
C4_StaleGapHasNoResponseTime ==
    Done =>
        \A q \in 1..Len(df) :
            \A g \in 1..Len(Gaps(data)) :
                ( /\ Some(Gaps(data)[g].index) = df[q].left_index
                  /\ IsSome(Gaps(data)[g].response_time)
                  /\ Get(Gaps(data)[g].response_time) > Limit )
                    => IsNone(df[q].response_time)

(* C5: a sender-switch record other than the first whose gap to the previous
   sender-switch record is at most 6 hours has exactly that gap as its
   response_time in the final table. *)
C5_ResponseTimeIsGap ==
    Done =>
        \A g \in 2..Len(Gaps(data)) :
            ( /\ IsSome(Gaps(data)[g].response_time)
              /\ Get(Gaps(data)[g].response_time) <= Limit )
                => /\ \E q \in 1..Len(df) : df[q].left_index = Some(Gaps(data)[g].index)
                   /\ \A q \in 1..Len(df) :
                        df[q].left_index = Some(Gaps(data)[g].index)
                            => df[q].response_time = Gaps(data)[g].response_time

(* C6: a response_time of the final table is never negative. *)
C6_ResponseTimeNonNegative ==
    Done =>
        \A q \in 1..Len(df) :
            IsSome(df[q].response_time) => Get(df[q].response_time) >= 0

FirstMeaningfulLineUnprefixed ==
    \E i \in 1..Len(data) :
        /\ data[i].message # <<>>
        /\ ~Prefixed(data, i)
        /\ \A j \in 1..(i - 1) : data[j].message = <<>>

(* C7: when the first line with a non-empty body has no prefix the run fails,
   so that no reconstructed record lacks its timestamp or its sender. *)
C7_MissingInitialPrefixFails ==
    (Reconstructed \/ Done) =>
        /\ ~FirstMeaningfulLineUnprefixed
        /\ \A p \in 1..Len(df) : IsSome(df[p].datetime) /\ IsSome(df[p].messenger)

(* C8: the merged table holds exactly the reconstructed records: one row for
   each, with its timestamp, date, time, sender and body. *)
C8_MergePreservesRecords ==
    Done =>
        LET recs == Reconstruct(data)
        IN  /\ Len(df) = Len(recs)
            /\ \A p \in 1..Len(recs) :
                 /\ Cardinality({ q \in 1..Len(df) :
                                    df[q].left_index = Some(recs[p].index) }) = 1
                 /\ \A q \in 1..Len(df) :
                      df[q].left_index = Some(recs[p].index)
                          => Key(df[q]) = Key(recs[p])

(* The rows are in the order of their input lines. *)
InLineOrder(labels) ==
    \A p \in 1..Len(labels), q \in 1..Len(labels) :
        p < q => labels[p] <= labels[q]

(* The record of every line with a non-empty body, in input order. *)
KeptLines(d) ==
    LET Kept(e) == e.message # <<>>
    IN  SelectSeq([ i \in 1..Len(d) |-> [ index |-> i - 1, message |-> d[i].message ] ],
                  Kept)

C10_TotalLineClassification ==
    /\ pc # "search" =>
         \A i \in 1..Len(data) :
             /\ IsSome(data[i].datetime) <=> IsSome(data[i].messenger)
             /\ IsNone(data[i].datetime)
                    => data[i].message \o <<NL>> = lines[i]
             /\ IsSome(data[i].datetime)
                    => <<LBRACKET>> \o Get(data[i].datetime) \o <<RBRACKET, SP>>
                          \o Get(data[i].messenger) \o <<COLON, SP>>
                          \o data[i].message \o <<NL>> = lines[i]
    /\ err # "ValueError"

=============================================================================
